---- MODULE Spec2Model ----
(***************************************************************************)
(* A model of syft_hub/core/decorators.py: the availability guard          *)
(* (ensure_syftbox_running), the authorization guard (require_account),    *)
(* the blocking adaptation (make_sync_wrapper) and the adaptive dispatch   *)
(* (smart_async_wrapper).                                                  *)
(*                                                                         *)
(* Spec          one caller issuing one wrapped call after another on a    *)
(*               service instance.                                         *)
(* FairConcSpec  two threads, each making one blocking-adaptation call on  *)
(*               an operation of its own.                                  *)
(* NameSpec      the metadata the two adapters give the callables they     *)
(*               build.                                                    *)
(***************************************************************************)
EXTENDS Integers, Sequences, FiniteSets, TLC

VARIABLES
    \* ---- the service instance (owned by the collaborator) ----
    syft_client,         \* "absent" | "other" (not a SyftClient) | "client"
    datasite_exists,     \* what syft_client.my_datasite.exists() answers
    account_configured,  \* the _account_configured attribute: "absent" | "false" | "true"
    \* ---- the call in progress ----
    deco,                \* which decorator built the callable being called
    is_async,            \* asyncio.iscoroutinefunction(func)
    in_loop,             \* the caller runs inside a running event loop
    args,                \* the positional arguments of the call (self first, when given)
    kwargs,              \* the keyword arguments of the call, a set of <<key, value>>
    behaviour,           \* what the body of the wrapped operation does: "return" | "raise"
    pc,                  \* the position of the call
    handle,              \* what the call expression evaluated to: "none" | "coroutine" | "direct"
    calls,               \* how many times func(...) was called
    received_args,       \* the positional arguments func received
    received_kwargs,     \* the keyword arguments func received
    op_pc,               \* the wrapped operation: "none" | "created" | "running" | "done"
    op_outcome,          \* the outcome of the wrapped operation's body
    exists_evals,        \* evaluations of the readiness predicate during the call
    threads,             \* worker threads created during the call
    worker,              \* the worker thread: "none" | "started" | "exited"
    op_thread,           \* the thread the operation's body runs on: "none" | "caller" | "worker"
    probes,              \* calls of detect_async_context during the call
    result,              \* the outcome of the wrapped call
    \* ---- two threads in the blocking adaptation (FairConcSpec) ----
    c_pc,                \* per calling thread: "idle" | "blocked" | "done"
    c_args,              \* per calling thread: the positional arguments of its call
    c_beh,               \* per calling thread: what its operation's body does
    c_worker,            \* per calling thread: the worker thread serving its call, 0: none
    c_result,            \* per calling thread: the outcome of its call
    w_state,             \* per worker thread: "unborn" | "started" | "exited"
    w_coro,              \* per worker thread: the coroutine submitted to its scheduler
    w_outcome,           \* per worker thread: the outcome of that coroutine
    \* ---- decoration (NameSpec) ----
    func_name,           \* async_method.__name__, a sequence of characters
    func_doc,            \* async_method.__doc__: [none |-> it is None, text |-> its text]
    wrapped_by,          \* "none" | "make_sync" | "smart"
    wrapper_name,        \* the __name__ given to the callable built
    wrapper_doc          \* the __doc__ given to the callable built

instance == <<syft_client, account_configured>>
inputs == <<deco, is_async, in_loop, args, kwargs, behaviour>>
operation == <<calls, received_args, received_kwargs, op_pc, op_outcome, op_thread>>
callvars == <<inputs, operation, pc, handle, exists_evals, threads, worker, probes, result>>
mainvars == <<instance, datasite_exists, callvars>>

concvars == <<c_pc, c_args, c_beh, c_worker, c_result, w_state, w_coro, w_outcome>>
namevars == <<func_name, func_doc, wrapped_by, wrapper_name, wrapper_doc>>

vars == <<mainvars, concvars, namevars>>

\* ------------------------------------------------------------------ bounds
MaxArgs == 1            \* positional arguments after self

Values == {"v1", "v2"}
Keys == {"k"}
Objects == {"S", "X"}   \* S: the service instance; X: an object of another class

RECURSIVE SeqsUpTo(_, _)
SeqsUpTo(S, n) ==
    IF n = 0 THEN {<<>>}
    ELSE LET shorter == SeqsUpTo(S, n - 1)
         IN  shorter \cup {Append(s, x) : s \in shorter, x \in S}

ExtraArgs == SeqsUpTo(Values, MaxArgs)
KwargsSet == {{}} \cup {{<<k, v>>} : k \in Keys, v \in Values}
\* every positional argument list a caller can write: none, or an object then values
ArgLists == {<<>>} \cup {<<o>> \o e : o \in Objects, e \in ExtraArgs}
MethodArgLists == {<<"S">> \o e : e \in ExtraArgs}

\* ------------------------------------------------------------------ outcomes
Outcome(k, t, txt, a, kw) ==
    [kind |-> k, type |-> t, text |-> txt, args |-> a, kwargs |-> kw]

NoOutcome == Outcome("none", "", "", <<>>, {})
Awaitable == Outcome("awaitable", "coroutine", "", <<>>, {})
Raised(t, txt) == Outcome("error", t, txt, <<>>, {})

\* The wrapped operation: it answers with, or raises an error carrying, exactly
\* the arguments it received, so that a changed argument is a changed outcome.
Op(a, kw, beh) ==
    IF beh = "raise" THEN Outcome("error", "OpError", "", a, kw)
    ELSE Outcome("value", "", "", a, kw)

\* service_instance.__class__.__name__
ClassName(o) == IF o = "S" THEN "Service" ELSE "Other"

\* ------------------------------------------------------------------ helpers
\* mutant: a guard that records the account as configured
WrapperFrame_SetsFlag ==
    syft_client' = syft_client /\ account_configured' = "true"

\* no statement of any wrapper assigns an attribute of the instance
WrapperFrame == UNCHANGED <<syft_client, account_configured>>

\* a new call: the caller chooses the callable, the arguments and its own context
StartCall(d, a, kw, beh, loop, asyncf) ==
    /\ pc \in {"idle", "done"}
    /\ deco' = d /\ args' = a /\ kwargs' = kw
    /\ behaviour' = beh /\ in_loop' = loop /\ is_async' = asyncf
    /\ UNCHANGED <<datasite_exists, concvars, namevars>>

NotInvoked ==
    /\ calls' = 0 /\ received_args' = <<>> /\ received_kwargs' = {}
    /\ op_pc' = "none" /\ op_outcome' = NoOutcome /\ op_thread' = "none"

\* func(...) is called with the forwarded arguments fw = <<positional, keyword>>
Invoke(n, fw, state, thread) ==
    /\ calls' = n /\ received_args' = fw[1] /\ received_kwargs' = fw[2]
    /\ op_pc' = state /\ op_outcome' = NoOutcome /\ op_thread' = thread

\* ------------------------------------------------------------------ ensure_syftbox_running
\* hasattr(service_instance, 'syft_client') and isinstance(..., SyftClient)
HasValidSyftClient(o) == o = "S" /\ syft_client = "client"

\* mutant: the readiness predicate is never consulted
EnsureChecks_NoReadiness(a) ==
    IF a = <<>>
    THEN [raised |-> Raised("TypeError", "must be called as a method"), evals |-> 0]
    ELSE IF ~HasValidSyftClient(a[1])
    THEN [raised |-> Raised("AttributeError", ClassName(a[1])), evals |-> 0]
    ELSE [raised |-> NoOutcome, evals |-> 0]

\* mutant: no `if not args` check, so args[0] fails on an empty argument list
EnsureChecks_NoUsageCheck(a) ==
    IF a = <<>>
    THEN [raised |-> Raised("IndexError", "tuple index out of range"), evals |-> 0]
    ELSE IF ~HasValidSyftClient(a[1])
    THEN [raised |-> Raised("AttributeError", ClassName(a[1])), evals |-> 0]
    ELSE IF ~datasite_exists
    THEN [raised |-> Raised("SyftBoxNotRunningError", "Local SyftBox is not running"),
          evals |-> 1]
    ELSE [raised |-> NoOutcome, evals |-> 1]

\* The precondition checks of wrapper, in order: the error raised (NoOutcome when
\* all pass) and the number of evaluations of my_datasite.exists().
EnsureChecks(a) ==
    IF a = <<>>
    THEN [raised |-> Raised("TypeError", "must be called as a method"), evals |-> 0]
    ELSE IF ~HasValidSyftClient(a[1])
    THEN [raised |-> Raised("AttributeError", ClassName(a[1])), evals |-> 0]
    ELSE IF ~datasite_exists
    THEN [raised |-> Raised("SyftBoxNotRunningError", "Local SyftBox is not running"),
          evals |-> 1]
    ELSE [raised |-> NoOutcome, evals |-> 1]

\* mutant: func(*args), the keyword arguments dropped
EnsureForward_NoKwargs(a, kw) == <<a, {}>>

\* func(*args, **kwargs)
EnsureForward(a, kw) == <<a, kw>>

\* wrapper(*args, **kwargs) is called: an async function, so the call only makes
\* the coroutine; nothing of the body has run.
EnsureCall(a, kw, beh, loop) ==
    /\ StartCall("ensure", a, kw, beh, loop, TRUE)
    /\ pc' = "coro" /\ handle' = "coroutine"
    /\ NotInvoked
    /\ exists_evals' = 0 /\ threads' = 0 /\ worker' = "none" /\ probes' = 0
    /\ result' = NoOutcome
    /\ WrapperFrame

\* the coroutine is driven: the body of wrapper up to `await func(...)`
EnsureBody ==
    /\ pc = "coro" /\ deco = "ensure"
    /\ LET c == EnsureChecks(args)
       IN  /\ exists_evals' = c.evals
           /\ IF c.raised.kind = "error"
              THEN /\ result' = c.raised
                   /\ pc' = "done"
                   /\ UNCHANGED operation
              ELSE /\ Invoke(calls + 1, EnsureForward(args, kwargs), "running", "caller")
                   /\ pc' = "awaiting_op"
                   /\ UNCHANGED result
    /\ WrapperFrame
    /\ UNCHANGED <<concvars, namevars>>
    /\ UNCHANGED <<inputs, datasite_exists, handle, threads, worker, probes>>

\* `return await func(*args, **kwargs)`: the operation's outcome is the wrapper's
EnsureReturn ==
    /\ pc = "awaiting_op" /\ deco = "ensure" /\ op_pc = "done"
    /\ result' = op_outcome
    /\ pc' = "done"
    /\ WrapperFrame
    /\ UNCHANGED <<concvars, namevars>>
    /\ UNCHANGED <<inputs, operation, datasite_exists, handle, exists_evals, threads,
                   worker, probes>>

\* ------------------------------------------------------------------ require_account
\* mutant: getattr(self, '_account_configured', True)
AccountConfigured_DefaultTrue == account_configured # "false"

\* getattr(self, '_account_configured', False)
AccountConfigured == account_configured = "true"

AuthenticationError == Raised("AuthenticationError", "Account setup required")

\* mutant: async_wrapper is returned whatever func is
RequireWrapper_AlwaysAsync(asyncf) == "async_wrapper"

\* `if asyncio.iscoroutinefunction(func): return async_wrapper / else: return sync_wrapper`
RequireWrapper(asyncf) == IF asyncf THEN "async_wrapper" ELSE "sync_wrapper"

\* func(self, *args, **kwargs)
RequireForward(a, kw) == <<<<Head(a)>> \o Tail(a), kw>>

\* The decorated method is called. async_wrapper: the call only makes the coroutine.
\* sync_wrapper: the body runs in the call, up to func(...).
RequireCall(a, kw, beh, loop, asyncf) ==
    /\ StartCall("require", a, kw, beh, loop, asyncf)
    /\ IF RequireWrapper(asyncf) = "async_wrapper"
       THEN /\ pc' = "coro" /\ handle' = "coroutine"
            /\ NotInvoked
            /\ result' = NoOutcome
       ELSE IF ~AccountConfigured
       THEN /\ pc' = "done" /\ handle' = "direct"
            /\ NotInvoked
            /\ result' = AuthenticationError
       ELSE /\ pc' = "in_op" /\ handle' = "none"
            /\ Invoke(1, RequireForward(a, kw), "running", "caller")
            /\ result' = NoOutcome
    /\ exists_evals' = 0 /\ threads' = 0 /\ worker' = "none" /\ probes' = 0
    /\ WrapperFrame

\* the coroutine of async_wrapper is driven: its body up to `await func(...)`
RequireAsyncBody ==
    /\ pc = "coro" /\ deco = "require"
    /\ IF ~AccountConfigured
       THEN /\ result' = AuthenticationError
            /\ pc' = "done"
            /\ UNCHANGED operation
       ELSE /\ Invoke(calls + 1, RequireForward(args, kwargs), "running", "caller")
            /\ pc' = "awaiting_op"
            /\ UNCHANGED result
    /\ WrapperFrame
    /\ UNCHANGED <<concvars, namevars>>
    /\ UNCHANGED <<inputs, datasite_exists, handle, exists_evals, threads, worker, probes>>

\* `return await func(...)` of async_wrapper, `return func(...)` of sync_wrapper
RequireReturn ==
    /\ pc \in {"awaiting_op", "in_op"} /\ deco = "require" /\ op_pc = "done"
    /\ result' = op_outcome
    /\ handle' = IF pc = "in_op" THEN "direct" ELSE handle
    /\ pc' = "done"
    /\ WrapperFrame
    /\ UNCHANGED <<concvars, namevars>>
    /\ UNCHANGED <<inputs, operation, datasite_exists, exists_evals, threads, worker,
                   probes>>

\* ------------------------------------------------------------------ async_utils
\* Reports whether an event loop is driving the calling code; never raises.
detect_async_context(loop) == loop

\* run_async_in_thread(coro), first half: a worker thread with a scheduler of its
\* own is started for this call and the coroutine is submitted to it; the caller
\* blocks.
RunAsyncInThreadStart ==
    /\ threads' = 1 /\ worker' = "started"
    /\ pc' = "blocked" /\ handle' = "none"
    /\ result' = NoOutcome

\* the worker's scheduler starts the submitted coroutine
WorkerRun ==
    /\ pc = "blocked" /\ worker = "started" /\ op_pc = "created"
    /\ op_pc' = "running" /\ op_thread' = "worker"
    /\ WrapperFrame
    /\ UNCHANGED <<concvars, namevars>>
    /\ UNCHANGED <<inputs, calls, received_args, received_kwargs, op_outcome,
                   datasite_exists, pc, handle, exists_evals, threads, worker, probes,
                   result>>

\* run_async_in_thread(coro), second half: the coroutine has completed, the worker
\* and its scheduler are torn down, and the caller gets the value or the error.
ThreadJoin ==
    /\ pc = "blocked" /\ worker = "started" /\ op_pc = "done"
    /\ worker' = "exited"
    /\ result' = op_outcome
    /\ handle' = "direct"
    /\ pc' = "done"
    /\ WrapperFrame
    /\ UNCHANGED <<concvars, namevars>>
    /\ UNCHANGED <<inputs, operation, datasite_exists, exists_evals, threads, probes>>

\* ------------------------------------------------------------------ the adapters
\* async_method(self, *args, **kwargs)
MethodForward(a, kw) == <<<<Head(a)>> \o Tail(a), kw>>

\* mutant: the blocking adaptation hands back the coroutine inside an event loop
MakeSyncPath_ContextAware(loop) == IF loop THEN "coroutine" ELSE "thread"

\* sync_wrapper: `return run_async_in_thread(async_method(...))`, whatever the context
MakeSyncPath(loop) == "thread"

\* mutant: the two branches of smart_wrapper swapped
SmartPath_Swapped(loop) == IF loop THEN "thread" ELSE "coroutine"

\* smart_wrapper: `if detect_async_context(): return async_method(...)`,
\* `else: return run_async_in_thread(async_method(...))`
SmartPath(loop) == IF detect_async_context(loop) THEN "coroutine" ELSE "thread"

\* Both paths call async_method(...), which makes the coroutine without starting it.
Adapt(path, fw) ==
    /\ Invoke(1, fw, "created", "none")
    /\ IF path = "thread"
       THEN RunAsyncInThreadStart
       ELSE /\ threads' = 0 /\ worker' = "none"
            /\ pc' = "handle" /\ handle' = "coroutine"
            /\ result' = Awaitable

MakeSyncCall(a, kw, beh, loop) ==
    /\ StartCall("make_sync", a, kw, beh, loop, TRUE)
    /\ Adapt(MakeSyncPath(loop), MethodForward(a, kw))
    /\ exists_evals' = 0 /\ probes' = 0
    /\ WrapperFrame

SmartCall(a, kw, beh, loop) ==
    /\ StartCall("smart", a, kw, beh, loop, TRUE)
    /\ probes' = 1
    /\ Adapt(SmartPath(loop), MethodForward(a, kw))
    /\ exists_evals' = 0
    /\ WrapperFrame

\* "Return coroutine - caller must await it": the caller awaits the handle
AwaitHandle ==
    /\ pc = "handle" /\ op_pc = "created"
    /\ op_pc' = "running" /\ op_thread' = "caller"
    /\ pc' = "awaiting_handle"
    /\ WrapperFrame
    /\ UNCHANGED <<concvars, namevars>>
    /\ UNCHANGED <<inputs, calls, received_args, received_kwargs, op_outcome,
                   datasite_exists, handle, exists_evals, threads, worker, probes, result>>

HandleDone ==
    /\ pc = "awaiting_handle" /\ op_pc = "done"
    /\ pc' = "done"
    /\ WrapperFrame
    /\ UNCHANGED <<concvars, namevars>>
    /\ UNCHANGED <<inputs, operation, datasite_exists, handle, exists_evals, threads,
                   worker, probes, result>>

\* ------------------------------------------------------------------ the wrapped operation
ClientStates == {"absent", "other", "client"}
FlagStates == {"absent", "false", "true"}

\* The body of the wrapped operation runs to its end. It is the collaborator's
\* code: it may assign the instance's attributes.
OpBody ==
    /\ op_pc = "running"
    /\ op_pc' = "done"
    /\ op_outcome' = Op(received_args, received_kwargs, behaviour)
    /\ syft_client' \in ClientStates
    /\ account_configured' \in FlagStates
    /\ UNCHANGED <<concvars, namevars>>
    /\ UNCHANGED <<inputs, calls, received_args, received_kwargs, op_thread,
                   datasite_exists, pc, handle, exists_evals, threads, worker, probes,
                   result>>

\* ------------------------------------------------------------------ specification
MainInit ==
    /\ syft_client \in ClientStates
    /\ datasite_exists \in BOOLEAN
    /\ account_configured \in FlagStates
    /\ deco = "none" /\ is_async = TRUE /\ in_loop = FALSE
    /\ args = <<>> /\ kwargs = {} /\ behaviour = "return"
    /\ pc = "idle" /\ handle = "none"
    /\ calls = 0 /\ received_args = <<>> /\ received_kwargs = {}
    /\ op_pc = "none" /\ op_outcome = NoOutcome /\ op_thread = "none"
    /\ exists_evals = 0 /\ threads = 0 /\ worker = "none" /\ probes = 0
    /\ result = NoOutcome

Behaviours == {"return", "raise"}

MainNext ==
    \/ \E a \in ArgLists, kw \in KwargsSet, beh \in Behaviours, loop \in BOOLEAN :
          EnsureCall(a, kw, beh, loop)
    \/ EnsureBody
    \/ EnsureReturn
    \/ \E a \in MethodArgLists, kw \in KwargsSet, beh \in Behaviours, loop \in BOOLEAN,
          asyncf \in BOOLEAN :
          RequireCall(a, kw, beh, loop, asyncf)
    \/ RequireAsyncBody
    \/ RequireReturn
    \/ \E a \in MethodArgLists, kw \in KwargsSet, beh \in Behaviours, loop \in BOOLEAN :
          MakeSyncCall(a, kw, beh, loop)
    \/ \E a \in MethodArgLists, kw \in KwargsSet, beh \in Behaviours, loop \in BOOLEAN :
          SmartCall(a, kw, beh, loop)
    \/ WorkerRun
    \/ ThreadJoin
    \/ AwaitHandle
    \/ HandleDone
    \/ OpBody

\* ------------------------------------------------------------------ two concurrent calls
Threads == {"t1", "t2"}
Workers == 1 .. Cardinality(Threads)

\* the async operation each thread's blocking-adapted callable was built from
MethodOf(t) == IF t = "t1" THEN "fetch_async" ELSE "send_async"

\* the operation named m: its outcome carries its name and the arguments received
ConcOp(m, a, beh) ==
    IF beh = "raise" THEN Outcome("error", "OpError", m, a, {})
    ELSE Outcome("value", "", m, a, {})

NoCoro == [method |-> "", args |-> <<>>, beh |-> "", st |-> "none"]

\* mutant: every callable built closes over the same async_method
SubmittedMethod_Shared(t) == MethodOf("t1")

\* sync_wrapper closes over the async_method it was built from: thread t's callable
\* submits the coroutine of its own operation
SubmittedMethod(t) == MethodOf(t)

\* sync_wrapper(self, *args): async_method(self, *args) makes the coroutine, and
\* run_async_in_thread starts a new worker thread for this call and submits it
ConcCall(t, a, beh) ==
    /\ c_pc[t] = "idle"
    /\ \E w \in Workers :
          /\ w_state[w] = "unborn"
          /\ \A v \in Workers : v < w => w_state[v] # "unborn"
          /\ w_state' = [w_state EXCEPT ![w] = "started"]
          /\ w_coro' = [w_coro EXCEPT ![w] =
                           [method |-> SubmittedMethod(t), args |-> a, beh |-> beh,
                            st |-> "created"]]
          /\ c_worker' = [c_worker EXCEPT ![t] = w]
    /\ c_pc' = [c_pc EXCEPT ![t] = "blocked"]
    /\ c_args' = [c_args EXCEPT ![t] = a]
    /\ c_beh' = [c_beh EXCEPT ![t] = beh]
    /\ UNCHANGED <<mainvars, namevars, c_result, w_outcome>>

\* a worker's scheduler starts the coroutine submitted to it
ConcWorkerRun(w) ==
    /\ w_state[w] = "started" /\ w_coro[w].st = "created"
    /\ w_coro' = [w_coro EXCEPT ![w].st = "running"]
    /\ UNCHANGED <<mainvars, namevars, c_pc, c_args, c_beh, c_worker, c_result, w_state, w_outcome>>

\* the body of the operation runs to its end on the worker
ConcOpBody(w) ==
    /\ w_state[w] = "started" /\ w_coro[w].st = "running"
    /\ w_coro' = [w_coro EXCEPT ![w].st = "done"]
    /\ w_outcome' = [w_outcome EXCEPT ![w] =
                        ConcOp(w_coro[w].method, w_coro[w].args, w_coro[w].beh)]
    /\ UNCHANGED <<mainvars, namevars, c_pc, c_args, c_beh, c_worker, c_result, w_state>>

\* the worker is joined and torn down; the caller gets the value or the error
ConcJoin(t) ==
    /\ c_pc[t] = "blocked"
    /\ w_coro[c_worker[t]].st = "done"
    /\ w_state' = [w_state EXCEPT ![c_worker[t]] = "exited"]
    /\ c_result' = [c_result EXCEPT ![t] = w_outcome[c_worker[t]]]
    /\ c_pc' = [c_pc EXCEPT ![t] = "done"]
    /\ UNCHANGED <<mainvars, namevars, c_args, c_beh, c_worker, w_coro, w_outcome>>

ConcInit ==
    /\ c_pc = [t \in Threads |-> "idle"]
    /\ c_args = [t \in Threads |-> <<>>]
    /\ c_beh = [t \in Threads |-> ""]
    /\ c_worker = [t \in Threads |-> 0]
    /\ c_result = [t \in Threads |-> NoOutcome]
    /\ w_state = [w \in Workers |-> "unborn"]
    /\ w_coro = [w \in Workers |-> NoCoro]
    /\ w_outcome = [w \in Workers |-> NoOutcome]

ConcNext ==
    \/ \E t \in Threads, a \in MethodArgLists, beh \in Behaviours : ConcCall(t, a, beh)
    \/ \E w \in Workers : ConcWorkerRun(w)
    \/ \E w \in Workers : ConcOpBody(w)
    \/ \E t \in Threads : ConcJoin(t)

\* ------------------------------------------------------------------ decoration
MaxParts == 2           \* pieces a method name is put together from

AsyncSuffix == <<"_", "a", "s", "y", "n", "c">>
SyncSuffix == <<"_", "s", "y", "n", "c">>
NamePieces == {AsyncSuffix, <<"f">>, <<"_">>, <<"_", "a">>, <<"s", "y", "n", "c">>}

RECURSIVE NamesOf(_)
NamesOf(n) ==
    IF n = 0 THEN {<<>>}
    ELSE LET shorter == NamesOf(n - 1)
         IN  shorter \cup {s \o q : s \in shorter, q \in NamePieces}

FuncNames == NamesOf(MaxParts) \ {<<>>}
FuncDocs == {[none |-> TRUE, text |-> <<>>],
             [none |-> FALSE, text |-> <<>>],
             [none |-> FALSE, text |-> <<"F", "e", "t", "c", "h", "e", "s", " ", "X">>]}

\* str.replace(old, ''): every occurrence of old found scanning from the left, each
\* scan resuming after the occurrence removed
RECURSIVE Replace(_, _)
Replace(s, old) ==
    IF Len(s) < Len(old) THEN s
    ELSE IF SubSeq(s, 1, Len(old)) = old
    THEN Replace(SubSeq(s, Len(old) + 1, Len(s)), old)
    ELSE <<Head(s)>> \o Replace(Tail(s), old)

\* async_method.__doc__ or ''
DocOrEmpty(d) == IF d.none THEN <<>> ELSE d.text

\* f"{async_method.__name__}_sync"
SyncWrapperName(n) == n \o SyncSuffix

\* f"Synchronous wrapper for {async_method.__name__}.\n\n{async_method.__doc__ or ''}"
SyncWrapperDoc(n, d) ==
    <<"Synchronous wrapper for ">> \o n \o <<".", "\n", "\n">> \o DocOrEmpty(d)

\* async_method.__name__.replace('_async', '')
SmartWrapperName(n) == Replace(n, AsyncSuffix)

SmartWrapperDoc(n, d) ==
    <<"Smart wrapper for ">> \o n
      \o <<" that adapts to execution context.", "\n", "    ", "\n",
           "    In async contexts: returns awaitable coroutine", "\n",
           "    In sync contexts: returns the actual result", "\n", "    ", "\n", "    ">>
      \o DocOrEmpty(d) \o <<"\n", "    ">>

make_sync_wrapper ==
    /\ wrapped_by = "none"
    /\ wrapped_by' = "make_sync"
    /\ wrapper_name' = SyncWrapperName(func_name)
    /\ wrapper_doc' = SyncWrapperDoc(func_name, func_doc)
    /\ UNCHANGED <<func_name, func_doc, mainvars, concvars>>

smart_async_wrapper ==
    /\ wrapped_by = "none"
    /\ wrapped_by' = "smart"
    /\ wrapper_name' = SmartWrapperName(func_name)
    /\ wrapper_doc' = SmartWrapperDoc(func_name, func_doc)
    /\ UNCHANGED <<func_name, func_doc, mainvars, concvars>>

NameInit ==
    /\ func_name \in FuncNames
    /\ func_doc \in FuncDocs
    /\ wrapped_by = "none"
    /\ wrapper_name = <<>>
    /\ wrapper_doc = <<>>

NameNext == make_sync_wrapper \/ smart_async_wrapper

\* ------------------------------------------------------------------ specifications
\* the parts a specification leaves alone stay in one fixed state
MainParked ==
    MainInit /\ syft_client = "client" /\ datasite_exists /\ account_configured = "true"
NameParked == NameInit /\ func_name = <<"f">> /\ func_doc.none

Init == MainInit /\ ConcInit /\ NameParked
Spec == Init /\ [][MainNext]_vars

ConcSpecInit == MainParked /\ ConcInit /\ NameParked
\* threads are scheduled, and the wrapped operations terminate
FairConcSpec == ConcSpecInit /\ [][ConcNext]_vars /\ WF_vars(ConcNext)

NameSpecInit == MainParked /\ ConcInit /\ NameInit
NameSpec == NameSpecInit /\ [][NameNext]_vars


\* ------------------------------------------------------------------ properties
NotRunningError == Raised("SyftBoxNotRunningError", "Local SyftBox is not running")
UsageError == Raised("TypeError", "must be called as a method")

\* the coroutine of the availability guard is about to be driven
EnsureAtBody == pc = "coro" /\ deco = "ensure"
\* a new call is about to be made: every step from here is a call
AtCall == pc \in {"idle", "done"}
\* what the operation called directly with the call's own arguments produces
Unwrapped == Op(args, kwargs, behaviour)

\* what a completed blocking adaptation looks like: the operation ran to its end
\* on the one worker thread of the call, and its outcome came back directly
BlockingCompleted ==
    /\ pc = "done" /\ handle = "direct"
    /\ calls = 1 /\ op_pc = "done" /\ op_thread = "worker"
    /\ threads = 1 /\ worker = "exited"
    /\ result = Unwrapped
    /\ result.kind \in {"value", "error"}

\* C1: driving the availability guard's call on an instance whose client is valid
\* but whose readiness predicate answers false ends in SyftBoxNotRunningError, and
\* the wrapped operation has not been called.
C1_UnreadyRaisesNotRunning ==
    [][(EnsureAtBody /\ args # <<>> /\ HasValidSyftClient(args[1]) /\ ~datasite_exists)
         => (pc' = "done" /\ result' = NotRunningError /\ calls' = 0 /\ op_pc' = "none")]_vars

C1_Witness ==
    /\ pc = "done" /\ deco = "ensure" /\ result = NotRunningError
    /\ calls = 0 /\ exists_evals = 1

\* C2: driving the availability guard's call on an instance whose client is valid
\* and ready calls the operation exactly once with exactly the original positional
\* and keyword arguments, and the call's outcome, value or error, is the operation's.
C2_ReadyInvokesOnce ==
    /\ [][(EnsureAtBody /\ args # <<>> /\ HasValidSyftClient(args[1]) /\ datasite_exists)
            => (/\ pc' = "awaiting_op" /\ calls' = 1
                /\ received_args' = args /\ received_kwargs' = kwargs)]_vars
    /\ [][(deco = "ensure" /\ pc = "awaiting_op" /\ op_pc = "done")
            => (/\ pc' = "done" /\ calls' = 1
                /\ result' = op_outcome /\ result' = Unwrapped)]_vars

C2_Witness ==
    /\ pc = "done" /\ deco = "ensure" /\ calls = 1
    /\ result.kind = "error" /\ result.type = "OpError"
    /\ kwargs # {} /\ Len(args) > 1

\* C3: with the account-configured flag false or absent the authorization guard
\* fails with AuthenticationError and the operation is never called: a sync
\* wrapper in the call itself, an async wrapper as soon as its coroutine is
\* driven, with no coroutine of the operation made before or after.
C3_UnconfiguredRaisesAuth ==
    /\ [][(AtCall /\ deco' = "require" /\ ~is_async'
             /\ account_configured \in {"false", "absent"})
            => (/\ pc' = "done" /\ result' = AuthenticationError
                /\ calls' = 0 /\ op_pc' = "none")]_vars
    /\ [][(AtCall /\ deco' = "require" /\ is_async')
            => (pc' = "coro" /\ calls' = 0 /\ op_pc' = "none")]_vars
    /\ [][(pc = "coro" /\ deco = "require"
             /\ account_configured \in {"false", "absent"})
            => (/\ pc' = "done" /\ result' = AuthenticationError
                /\ calls' = 0 /\ op_pc' = "none")]_vars

C3_Witness ==
    /\ pc = "done" /\ deco = "require" /\ is_async
    /\ account_configured = "absent"
    /\ result = AuthenticationError /\ calls = 0

\* C4: with the flag true the guarded operation is the operation: called once with
\* the original arguments, the same value or error comes back, and a sync
\* operation answers directly while an async one hands back a coroutine.
C4_ConfiguredIsTransparent ==
    /\ [][(AtCall /\ deco' = "require" /\ ~is_async' /\ account_configured = "true")
            => (/\ pc' = "in_op" /\ calls' = 1
                /\ received_args' = args' /\ received_kwargs' = kwargs')]_vars
    /\ [][(pc = "coro" /\ deco = "require" /\ account_configured = "true")
            => (/\ pc' = "awaiting_op" /\ calls' = 1
                /\ received_args' = args /\ received_kwargs' = kwargs)]_vars
    /\ []((deco = "require" /\ handle # "none")
            => (handle = IF is_async THEN "coroutine" ELSE "direct"))
    /\ [][(deco = "require" /\ pc \in {"awaiting_op", "in_op"} /\ op_pc = "done")
            => (/\ pc' = "done" /\ calls' = 1
                /\ result' = op_outcome /\ result' = Unwrapped)]_vars

C4_Witness ==
    /\ pc = "done" /\ deco = "require" /\ ~is_async
    /\ handle = "direct" /\ result.kind = "value" /\ calls = 1

\* C5: in an event loop or not, a call of the blocking adaptation has returned only
\* when the operation has run to its end on the call's worker thread; what comes
\* back is the operation's value itself, or the operation's error.
C5_BlockingAdaptation ==
    deco = "make_sync" =>
        /\ probes = 0
        /\ op_thread # "caller"
        /\ (handle # "none" \/ pc = "done") => BlockingCompleted

C5_Witness ==
    /\ deco = "make_sync" /\ in_loop /\ pc = "done"
    /\ result.kind = "error" /\ result.type = "OpError"

\* C6: the adaptive dispatch probes the context on every call. Inside an event loop
\* the call hands back the operation's coroutine unstarted, with no worker thread,
\* and awaiting it gives what the blocking adaptation gives; outside one the call is
\* the blocking adaptation.
C6_AdaptiveDispatch ==
    deco = "smart" =>
        /\ probes = 1
        /\ in_loop =>
              /\ handle = "coroutine" /\ result = Awaitable
              /\ calls = 1 /\ threads = 0 /\ worker = "none" /\ op_thread # "worker"
              /\ pc = "handle" => op_pc = "created"
              /\ pc = "done" => (op_pc = "done" /\ op_outcome = Unwrapped)
        /\ ~in_loop =>
              /\ op_thread # "caller"
              /\ (handle # "none" \/ pc = "done") => BlockingCompleted

C6_Witness ==
    /\ deco = "smart" /\ in_loop /\ pc = "done"
    /\ result = Awaitable /\ op_outcome.kind = "error"

\* ---- C7 ----
OwnOutcome(t) == ConcOp(MethodOf(t), c_args[t], c_beh[t])

ConcAllDone ==
    \A t \in Threads : c_pc[t] = "done" /\ c_result[t] = OwnOutcome(t)

\* C7: two blocking-adaptation calls on two operations from two threads: each call
\* has a worker thread of its own, and under every interleaving both calls come
\* back, each with the outcome of its own operation.
C7_ConcurrentCallsComplete ==
    /\ [](\A t, u \in Threads :
            (t # u /\ c_worker[t] # 0 /\ c_worker[u] # 0) => c_worker[t] # c_worker[u])
    /\ [](\A t \in Threads : c_pc[t] = "done" => c_result[t] = OwnOutcome(t))
    /\ <>[]ConcAllDone

C7_Witness ==
    /\ ConcAllDone
    /\ c_worker["t1"] = 2 /\ c_worker["t2"] = 1
    /\ c_beh["t1"] = "raise" /\ c_beh["t2"] = "return"

\* ---- C8 ----
EndsWith(s, suffix) ==
    /\ Len(s) >= Len(suffix)
    /\ SubSeq(s, Len(s) - Len(suffix) + 1, Len(s)) = suffix

\* n with one trailing "_async" taken off, n itself when it does not end so
StripAsyncSuffix(n) ==
    IF EndsWith(n, AsyncSuffix) THEN SubSeq(n, 1, Len(n) - Len(AsyncSuffix)) ELSE n

Contains(s, sub) ==
    \E i \in 1 .. (Len(s) + 1) :
        /\ i + Len(sub) - 1 <= Len(s)
        /\ SubSeq(s, i, i + Len(sub) - 1) = sub

\* C8: the blocking-adapted form is named n + "_sync"; the adaptive form is named n
\* with a trailing "_async" stripped, and n unchanged otherwise; the documentation
\* of both contains the original documentation.
C8_IdentityPreservation ==
    /\ wrapped_by = "make_sync" => wrapper_name = func_name \o SyncSuffix
    /\ wrapped_by = "smart" => wrapper_name = StripAsyncSuffix(func_name)
    /\ (wrapped_by # "none" /\ ~func_doc.none) => Contains(wrapper_doc, func_doc.text)

\* C9: the availability guard, called with no positional argument, raises the
\* usage TypeError; called with a first argument that has no syft_client of the
\* client type, raises an AttributeError naming that argument's class; both before
\* the readiness predicate is evaluated and without calling the operation.
C9_PreconditionOrder ==
    /\ [][(EnsureAtBody /\ args = <<>>)
            => (/\ pc' = "done" /\ result' = UsageError
                /\ exists_evals' = 0 /\ calls' = 0 /\ op_pc' = "none")]_vars
    /\ [][(EnsureAtBody /\ args # <<>> /\ ~HasValidSyftClient(args[1]))
            => (/\ pc' = "done" /\ result' = Raised("AttributeError", ClassName(args[1]))
                /\ exists_evals' = 0 /\ calls' = 0 /\ op_pc' = "none")]_vars

C9_Witness ==
    /\ pc = "done" /\ deco = "ensure" /\ args # <<>>
    /\ result = Raised("AttributeError", "Service")
    /\ syft_client = "other" /\ ~datasite_exists /\ exists_evals = 0

\* C10: every step of a wrapped call other than the body of the wrapped operation
\* leaves the instance's syft_client and _account_configured as they were.
C10_GuardsReadOnly ==
    [][op_pc # "running" => UNCHANGED <<syft_client, account_configured>>]_vars

C10_Witness ==
    /\ pc = "done" /\ deco = "require" /\ result = AuthenticationError
    /\ account_configured = "false" /\ syft_client = "absent"

====
